---- MODULE Spec2Model ----
(***************************************************************************)
(* vault-aws-sts-login: one invocation of aws/index.ts (run) and the       *)
(* components it calls: vault-login.ts, role-selection.ts, sts.ts.         *)
(*                                                                         *)
(* JavaScript values are tagged records; every JavaScript string is a      *)
(* sequence of one-character strings, so that startsWith, split, sort and  *)
(* path concatenation are computed as the code computes them.              *)
(* Times are milliseconds counted from 00:00:00.000 UTC of day EpochDay    *)
(* (days since 1970-01-01), which keeps the arithmetic inside TLC's        *)
(* integers; Date.toISOString adds EpochDay back.                          *)
(***************************************************************************)
EXTENDS Bags, FiniteSets, Integers, Sequences, TLC

VARIABLES
    argv,               \* process.argv: [pos: positional arguments, flags: set of flags]
    env,                \* process.env: VAULT_USERNAME, VAULT_PASSWORD
    epoch,              \* the day the clock counts from, in days since 1970-01-01
    now,                \* new Date().getTime(), in milliseconds since day epoch
    cacheFile,          \* content of VAULT_CACHE_FILE (~/.vault_token)
    credentialsFile,    \* ~/.aws/credentials: [exists, sections]
    pc,                 \* position of run()
    exitCode,           \* process exit code, once the process has ended
    VAULT_URL,          \* index.ts module variable
    VAULT_MOUNT_PREFIX, \* index.ts module variable
    vaultToken,         \* run(): const vaultToken
    account,            \* run(): let account
    role,               \* run(): let role
    keys,               \* run(): const keys
    signinToken,        \* run(): const signinToken
    allAccounts,        \* chooseAccount(): let allAccounts
    accessibleMounts,   \* chooseAccount(): settled results of Promise.all, by position
    choices,            \* the list handed to the pending inquirer list prompt
    requests,           \* bag of the requests issued through fetchWithTimeout
    response,           \* what the last awaited fetchWithTimeout settled with
    settled,            \* what each probe's fetchWithTimeout settled with, by position
    cachedToken,        \* vaultLogin(): const cachedToken
    vaultResult,        \* vaultLogin(): const vaultResult
    prompts,            \* bag of the inquirer prompts shown
    writes,             \* bag of the file writes that completed
    console,            \* set of the messages printed, by kind
    opened,             \* whether open() was called with the sign-in url
    assumed,            \* the assumeRole calls that returned a credential, over all runs
    runs                \* number of invocations started so far

vars == <<argv, env, epoch, now, cacheFile, credentialsFile, pc, exitCode, VAULT_URL,
          VAULT_MOUNT_PREFIX, vaultToken, account, role, keys, signinToken,
          allAccounts, accessibleMounts, choices, requests, response, settled,
          cachedToken, vaultResult, prompts, writes, console, opened, assumed, runs>>

----------------------------------------------------------------------------
(* JavaScript values                                                       *)

Undefined == [t |-> "undefined"]
Null == [t |-> "null"]
NaN == [t |-> "number", nan |-> TRUE]
Num(n) == [t |-> "number", n |-> n]
Bool(b) == [t |-> "boolean", b |-> b]
Str(s) == [t |-> "string", s |-> s]
Arr(a) == [t |-> "array", a |-> a]
Obj(o) == [t |-> "object", o |-> o]

\* A response body or file content that JSON.parse rejects.
NotJson == [t |-> "notjson"]

\* typeof v
typeof(v) == IF v.t \in {"null", "array", "object"} THEN "object" ELSE v.t

\* Array.isArray(v)
isArray(v) == v.t = "array"

\* `k in v` raises a TypeError when v is not an object
InRaises(v) == v.t \notin {"array", "object"}

\* `k in v` for a property name k, where it does not raise
In(k, v) == v.t = "object" /\ k \in DOMAIN v.o

\* v.k on an object or array
Get(v, k) == IF In(k, v) THEN v.o[k] ELSE Undefined

\* (a as unknown[]).every((el) => typeof el === "string")
everyString(a) == \A i \in 1..Len(a) : typeof(a[i]) = "string"

\* !v
Falsy(v) ==
    \/ v.t \in {"undefined", "null"}
    \/ v = Str(<<>>)
    \/ v = Num(0)
    \/ v = NaN
    \/ v = Bool(FALSE)

----------------------------------------------------------------------------
(* JSON                                                                    *)

RECURSIVE toJSON(_)
\* JSON.parse(JSON.stringify(v)): what a reader of the serialized text sees.
\* NaN is written as null, an undefined property is omitted, an undefined
\* array element is written as null.
toJSON(v) ==
    CASE v = NaN -> Null
      [] v.t = "undefined" -> Null
      [] v.t = "array" -> Arr([i \in 1..Len(v.a) |-> toJSON(v.a[i])])
      [] v.t = "object" ->
            Obj([k \in {f \in DOMAIN v.o : v.o[f].t # "undefined"} |-> toJSON(v.o[k])])
      [] OTHER -> v

\* JSON.stringify(v): the string holding the serialization of v
JSONstringify(v) == [t |-> "string", text |-> toJSON(v)]

\* A response body holding the serialization of v, and one that is no JSON
JsonBody(v) == [raw |-> JSONstringify(v), json |-> v]
RawBody(text) == [raw |-> Str(text), json |-> NotJson]

\* fetchWithTimeout rejects (timeout, connection error) or resolves to a Response
Rejected == [kind |-> "rejected"]
Response(ok, body) == [kind |-> "response", ok |-> ok, body |-> body]

\* The error object a rejected fetch carries
FetchFailure == Obj([type |-> Str(<<"s", "y", "s", "t", "e", "m">>)])

Digits == <<"0", "1", "2", "3", "4", "5", "6", "7", "8", "9">>
DigitValue(c) == CHOOSE d \in 0..9 : Digits[d + 1] = c
IsDigits(s) == \A i \in 1..Len(s) : \E d \in 1..10 : Digits[d] = s[i]

RECURSIVE DigitsValue(_)
DigitsValue(s) ==
    IF s = <<>> THEN 0
    ELSE 10 * DigitsValue(SubSeq(s, 1, Len(s) - 1)) + DigitValue(s[Len(s)])

RECURSIVE ToNumber(_)
\* The numeric coercion `*` applies to its operand
ToNumber(v) ==
    CASE v.t = "number" -> v
      [] v.t = "null" -> Num(0)
      [] v.t = "boolean" -> Num(IF v.b THEN 1 ELSE 0)
      [] v.t = "string" /\ "s" \in DOMAIN v ->
            IF IsDigits(v.s) THEN Num(DigitsValue(v.s)) ELSE NaN
      [] v.t = "array" ->
            IF v.a = <<>> THEN Num(0)
            ELSE IF Len(v.a) = 1 /\ v.a[1].t \in {"number", "string", "null"}
                 THEN ToNumber(IF v.a[1].t = "null" THEN Str(<<>>) ELSE v.a[1])
                 ELSE NaN
      [] OTHER -> NaN

\* a * b and a + b on numbers
Times(a, b) == IF a = NaN \/ b = NaN THEN NaN ELSE Num(a.n * b.n)
Plus(a, b) == IF a = NaN \/ b = NaN THEN NaN ELSE Num(a.n + b.n)

----------------------------------------------------------------------------
(* vault-login.ts                                                          *)

NoFile == [t |-> "nofile"]

\* loadCachedVaultTokenIfValid(): [value, log]
loadCachedVaultTokenIfValid(file, t) ==
    IF file = NoFile \/ file = NotJson \/ InRaises(file)
    THEN [value |-> Undefined, log |-> {}]
    ELSE IF \/ ~In("token", file)
            \/ ~In("expiration", file)
            \/ typeof(Get(file, "expiration")) # "number"
            \/ ~In("policies", file)
            \/ ~isArray(Get(file, "policies"))
            \/ ~everyString(Get(file, "policies").a)
    THEN [value |-> Undefined, log |-> {}]
    ELSE IF Get(file, "expiration").n < t + 5 * 60 * 1000
    THEN [value |-> Undefined, log |-> {"info: Vault token expired - renewing..."}]
    ELSE [value |-> Obj([token |-> Get(file, "token"),
                         expiration |-> Get(file, "expiration"),
                         policies |-> Get(file, "policies")]),
          log |-> {"info: Using cached vault token"}]

\* cacheVaultToken(token): [file, written, log]
cacheVaultToken(token, file, writable) ==
    IF writable
    THEN [file |-> toJSON(token), written |-> TRUE, log |-> {}]
    ELSE [file |-> file, written |-> FALSE,
          log |-> {"warn: Could not cache vault token"}]

\* A getSigUsernameAndPassword that asks the operator whatever the flags
getSigUsernameAndPasswordAsking(args, e, answers) ==
    [value |-> answers, prompted |-> TRUE,
     log |-> {"info: Enter LDAP username and password"}]

\* getSigUsernameAndPassword(): [value, prompted, log]
getSigUsernameAndPassword(args, e, answers) ==
    IF /\ "--no-pass-prompt" \in args.flags
       /\ ~Falsy(e.VAULT_USERNAME)
       /\ ~Falsy(e.VAULT_PASSWORD)
    THEN [value |-> [username |-> e.VAULT_USERNAME, password |-> e.VAULT_PASSWORD],
          prompted |-> FALSE, log |-> {}]
    ELSE [value |-> answers, prompted |-> TRUE,
          log |-> (IF "--no-pass-prompt" \in args.flags
                   THEN {"warn: Could not see both VAULT_USERNAME and VAULT_PASSWORD"}
                   ELSE {})
                  \cup {"info: Enter LDAP username and password"}]

VaultError(reason, details) == [t |-> "VaultError", reason |-> reason, details |-> details]

LoginPath == <<"/", "v", "1", "/", "a", "u", "t", "h", "/", "l", "d", "a", "p", "/",
               "l", "o", "g", "i", "n", "/">>

\* fetchVaultToken() from line 149 on, for a response with a success status:
\* [raised, value]
readLoginBody(resp, t) ==
    LET jsonBody == resp.body.json IN
    IF jsonBody = NotJson \/ InRaises(jsonBody)
    THEN [raised |-> TRUE, value |-> Undefined]
    ELSE IF ~In("auth", jsonBody)
    THEN [raised |-> FALSE, value |-> VaultError("InvalidBody", JSONstringify(jsonBody))]
    ELSE IF InRaises(Get(jsonBody, "auth"))
    THEN [raised |-> TRUE, value |-> Undefined]
    ELSE LET auth == Get(jsonBody, "auth") IN
         IF \/ ~In("client_token", auth)
            \/ ~In("lease_duration", auth)
            \/ ~In("policies", auth)
         THEN [raised |-> FALSE,
               value |-> VaultError("InvalidBody", JSONstringify(jsonBody))]
         ELSE [raised |-> FALSE,
               value |-> Obj([token |-> Get(auth, "client_token"),
                              expiration |->
                                  Plus(Num(t),
                                       Times(ToNumber(Get(auth, "lease_duration")),
                                             Num(1000))),
                              policies |-> Get(auth, "policies")])]

\* A fetchVaultToken that reports a non-success status as a failed fetch
fetchVaultTokenStatusAsFetchError(credentials, resp, t) ==
    IF resp = Rejected \/ ~resp.ok
    THEN [raised |-> FALSE, value |-> VaultError("FetchError", JSONstringify(FetchFailure))]
    ELSE readLoginBody(resp, t)

\* fetchVaultToken(credentials): [raised, value]
fetchVaultToken(credentials, resp, t) ==
    IF resp = Rejected
    THEN [raised |-> FALSE, value |-> VaultError("FetchError", JSONstringify(FetchFailure))]
    ELSE IF ~resp.ok
    THEN [raised |-> FALSE, value |-> VaultError("VaultPostNot200", resp.body.raw)]
    ELSE readLoginBody(resp, t)

\* vaultLogin() lines 29-46, given vaultResult and what cacheVaultToken does:
\* [raised, value, result, cachedToken, file, request, prompted, written, log]
vaultLoginResult(loaded, credentials, fetched, cached, file) ==
    [raised |-> fetched.raised,
     value |-> IF ~fetched.raised /\ In("token", fetched.value)
               THEN fetched.value ELSE Undefined,
     result |-> fetched.value,
     cachedToken |-> loaded.value,
     file |-> IF ~fetched.raised /\ In("token", fetched.value)
              THEN cached.file ELSE file,
     request |-> SetToBag({[method |-> "post",
                            path |-> LoginPath \o credentials.value.username.s]}),
     prompted |-> credentials.prompted,
     written |-> ~fetched.raised /\ In("token", fetched.value) /\ cached.written,
     log |-> loaded.log \cup credentials.log
             \cup (IF fetched.raised THEN {}
                   ELSE IF In("token", fetched.value)
                   THEN cached.log \cup {"info: Successfully authenticated with Vault"}
                   ELSE {"error: Could not authenticate to Vault"})]

\* A vaultLogin that returns no token when the token could not be cached
vaultLoginFailingUnwritten(loaded, credentials, fetched, file, writable) ==
    [vaultLoginResult(loaded, credentials, fetched,
                      cacheVaultToken(fetched.value, file, writable), file)
        EXCEPT !.value = IF writable THEN @ ELSE Undefined]

\* vaultLogin() lines 28-46, given the credentials and the fetched result
vaultLoginFetched(loaded, credentials, fetched, file, writable) ==
    vaultLoginResult(loaded, credentials, fetched,
                     cacheVaultToken(fetched.value, file, writable), file)

\* vaultLogin() lines 27-46, given the credentials
vaultLoginAs(loaded, credentials, file, t, resp, writable) ==
    vaultLoginFetched(loaded, credentials, fetchVaultToken(credentials.value, resp, t),
                      file, writable)

\* vaultLogin() from line 25 on, given what loadCachedVaultTokenIfValid returned:
\* [raised, value, result, cachedToken, file, request, prompted, written, log]
vaultLoginWith(loaded, args, e, file, t, answers, resp, writable) ==
    IF ~Falsy(loaded.value)
    THEN [raised |-> FALSE, value |-> loaded.value, result |-> Undefined,
          cachedToken |-> loaded.value, file |-> file, request |-> EmptyBag,
          prompted |-> FALSE, written |-> FALSE, log |-> loaded.log]
    ELSE vaultLoginAs(loaded, getSigUsernameAndPassword(args, e, answers), file, t,
                      resp, writable)

\* A vaultLogin that authenticates again whatever the cache holds
vaultLoginIgnoringCache(args, e, file, t, answers, resp, writable) ==
    vaultLoginWith([value |-> Undefined, log |-> {}], args, e, file, t, answers,
                   resp, writable)

\* vaultLogin()
vaultLogin(args, e, file, t, answers, resp, writable) ==
    vaultLoginWith(loadCachedVaultTokenIfValid(file, t), args, e, file, t, answers,
                   resp, writable)

----------------------------------------------------------------------------
(* Strings                                                                 *)

\* The characters of the model's strings in UTF-16 code unit order, which is
\* the order Array.prototype.sort() compares by.
CodeUnitOrder == <<" ", "-", ".", "/", "0", "1", "2", "3", "4", "5", "6", "7", "8", "9",
                   ":", "T", "Z", "a", "b", "c", "d", "e", "f", "g", "h", "i", "j", "k",
                   "l", "m", "n", "o", "p", "q", "r", "s", "t", "u", "v", "w", "x", "y",
                   "z">>
CodeUnit(c) == CHOOSE i \in 1..Len(CodeUnitOrder) : CodeUnitOrder[i] = c

\* s.startsWith(p)
startsWith(s, p) == Len(p) <= Len(s) /\ SubSeq(s, 1, Len(p)) = p

\* s.substring(0, e)
substring0(s, e) == SubSeq(s, 1, IF e < 0 THEN 0 ELSE IF e > Len(s) THEN Len(s) ELSE e)

\* s.indexOf(sep), counted from 1; 0 when sep does not occur
indexOf(s, sep) ==
    LET hits == {i \in 1..(Len(s) - Len(sep) + 1) : SubSeq(s, i, i + Len(sep) - 1) = sep}
    IN  IF hits = {} THEN 0 ELSE CHOOSE i \in hits : \A j \in hits : i <= j

\* s.split(sep)[0]
splitFirst(s, sep) ==
    IF indexOf(s, sep) = 0 THEN s ELSE SubSeq(s, 1, indexOf(s, sep) - 1)

\* parts[parts.length - 1] of parts = s.split("/")
splitLast(s) ==
    LET slashes == {i \in 1..Len(s) : s[i] = "/"}
        last == IF slashes = {} THEN 0 ELSE CHOOSE i \in slashes : \A j \in slashes : j <= i
    IN  SubSeq(s, last + 1, Len(s))

\* a < b as sort() compares strings
RECURSIVE stringLess(_, _)
stringLess(a, b) ==
    IF b = <<>> THEN FALSE
    ELSE IF a = <<>> THEN TRUE
    ELSE IF a[1] # b[1] THEN CodeUnit(a[1]) < CodeUnit(b[1])
    ELSE stringLess(Tail(a), Tail(b))

\* list.sort()
RECURSIVE sort(_)
sort(list) ==
    IF list = <<>> THEN <<>>
    ELSE LET x == list[Len(list)]
             rest == sort(SubSeq(list, 1, Len(list) - 1))
             before == {i \in 1..Len(rest) : ~stringLess(x, rest[i])}
             k == Cardinality(before)
         IN  SubSeq(rest, 1, k) \o <<x>> \o SubSeq(rest, k + 1, Len(rest))

\* list.filter(keep), for a set of kept positions
RECURSIVE filterSeq(_, _)
filterSeq(list, keep) ==
    IF list = <<>> THEN <<>>
    ELSE filterSeq(SubSeq(list, 1, Len(list) - 1), keep)
         \o (IF Len(list) \in keep THEN <<list[Len(list)]>> ELSE <<>>)

\* The bag of the elements of a list
RECURSIVE BagOfSeq(_)
BagOfSeq(list) ==
    IF list = <<>> THEN EmptyBag ELSE BagOfSeq(Tail(list)) (+) SetToBag({Head(list)})

----------------------------------------------------------------------------
(* role-selection.ts                                                       *)

V1 == <<"/", "v", "1", "/">>
ROLES == <<"r", "o", "l", "e", "s">>
AWS == <<"a", "w", "s", "/">>
STS == <<"/", "s", "t", "s", "/">>
MountsPath == <<"/", "v", "1", "/", "s", "y", "s", "/", "m", "o", "u", "n", "t", "s">>

\* The mounts object of /v1/sys/mounts: its keys in their order
MountsObj(ks) == [t |-> "object", o |-> <<>>, keys |-> ks]

\* Object.keys(json)
ObjectKeys(json) ==
    IF json.t = "array" THEN [i \in 1..Len(json.a) |-> <<Digits[i]>>]
    ELSE IF "keys" \in DOMAIN json THEN json.keys
    ELSE <<>>

\* The request mountNameIfAccessible(mount) issues
probeRequest(mount) == [method |-> "list", path |-> V1 \o mount \o ROLES]

\* A mountNameIfAccessible that takes any response for access
mountNameWhateverStatus(mount, resp) ==
    IF resp = Rejected
    THEN [value |-> Undefined, log |-> {"warn: Could not fetch role details for mount"}]
    ELSE [value |-> Str(splitLast(substring0(mount, Len(mount) - 1))), log |-> {}]

\* mountNameIfAccessible(mount), once its request has settled: [value, log]
mountNameIfAccessible(mount, resp) ==
    IF resp = Rejected
    THEN [value |-> Undefined, log |-> {"warn: Could not fetch role details for mount"}]
    ELSE IF ~resp.ok
    THEN [value |-> Undefined, log |-> {}]
    ELSE [value |-> Str(splitLast(substring0(mount, Len(mount) - 1))), log |-> {}]

\* chooseAccount() up to allAccounts: [failed, allAccounts, log]
fetchMounts(prefix, resp) ==
    IF resp = Rejected
    THEN [failed |-> TRUE, allAccounts |-> <<>>,
          log |-> {"error: Could not fetch Vault mounts"}]
    ELSE IF ~resp.ok
    THEN [failed |-> TRUE, allAccounts |-> <<>>,
          log |-> {"error: Could not fetch Vault mounts: returned non-200."}]
    ELSE LET json == resp.body.json IN
         IF json = NotJson \/ typeof(json) # "object" \/ json = Null
         THEN [failed |-> TRUE, allAccounts |-> <<>>,
               log |-> {"error: Invalid JSON received from Vault mounts endpoint"}]
         ELSE [failed |-> FALSE,
               allAccounts |-> filterSeq(ObjectKeys(json),
                                         {i \in 1..Len(ObjectKeys(json)) :
                                            startsWith(ObjectKeys(json)[i], prefix)}),
               log |-> {"debug: Found AWS accounts"}]

\* A list of accounts displayed in the order of the mounts, unsorted
accountChoicesInMountOrder(results) ==
    LET accountsForUser ==
            filterSeq(results, {i \in 1..Len(results) : typeof(results[i]) # "undefined"})
    IN  [i \in 1..Len(accountsForUser) |-> accountsForUser[i].s]

\* accountsForUser.sort(): the choices of the account prompt
accountChoices(results) ==
    LET accountsForUser ==
            filterSeq(results, {i \in 1..Len(results) : typeof(results[i]) # "undefined"})
    IN  sort([i \in 1..Len(accountsForUser) |-> accountsForUser[i].s])

\* The answer of an inquirer list prompt: one of its choices
promptAnswers(list) ==
    IF list = <<>> THEN {Undefined} ELSE {Str(list[i]) : i \in 1..Len(list)}

rolesRequest(acct) == [method |-> "list", path |-> V1 \o AWS \o acct.s \o <<"/">> \o ROLES]

\* A selection that asks the operator even when there is one role only
selectRoleAlwaysAsking(roles) ==
    IF Len(roles) = 0
    THEN [value |-> Undefined, prompt |-> FALSE, choices |-> <<>>,
          log |-> {"error: No roles available for account"}]
    ELSE [value |-> Undefined, prompt |-> TRUE,
          choices |-> sort([i \in 1..Len(roles) |-> roles[i].s]),
          log |-> {}]

\* chooseRole() from line 151 on, for the roles of a well-formed response:
\* [value, prompt, choices, log]
selectRole(roles) ==
    IF Len(roles) = 0
    THEN [value |-> Undefined, prompt |-> FALSE, choices |-> <<>>,
          log |-> {"error: No roles available for account"}]
    ELSE IF Len(roles) = 1
    THEN [value |-> roles[1], prompt |-> FALSE, choices |-> <<>>,
          log |-> {"info: Selecting the only role"}]
    ELSE [value |-> Undefined, prompt |-> TRUE,
          choices |-> sort([i \in 1..Len(roles) |-> roles[i].s]),
          log |-> {}]

\* chooseRole() up to the prompt: [value, prompt, choices, log]
chooseRole(acct, resp) ==
    LET absent(msg) == [value |-> Undefined, prompt |-> FALSE, choices |-> <<>>,
                        log |-> {msg}]
    IN
    IF resp = Rejected
    THEN absent("error: Could not fetch role details")
    ELSE IF ~resp.ok
    THEN absent("error: Non-200 response when fetching roles")
    ELSE LET json == resp.body.json IN
         IF json = NotJson \/ InRaises(json)
         THEN absent("error: Could not fetch role details for account")
         ELSE IF ~In("data", json)
         THEN absent("error: Malformed role list")
         ELSE IF InRaises(Get(json, "data"))
         THEN absent("error: Could not fetch role details for account")
         ELSE IF \/ ~In("keys", Get(json, "data"))
                 \/ ~isArray(Get(Get(json, "data"), "keys"))
                 \/ ~everyString(Get(Get(json, "data"), "keys").a)
         THEN absent("error: Malformed role list")
         ELSE selectRole(Get(Get(json, "data"), "keys").a)

----------------------------------------------------------------------------
(* Date                                                                    *)

\* Days the clock counts from, in days since 1970-01-01: 2027-12-31 and
\* 9999-12-31
EpochDay == 21183
LateEpochDay == 2932896

MsPerDay == 24 * 60 * 60 * 1000

\* civilFromDays, from the day of the 400-year era (doe) and the year of the
\* era (yoe) on
civilOfYear(era, yoe, doy, mp) ==
    [year |-> yoe + era * 400 + (IF mp < 10 THEN 0 ELSE 1),
     month |-> IF mp < 10 THEN mp + 3 ELSE mp - 9,
     day |-> doy - (153 * mp + 2) \div 5 + 1]

civilOfDayOfYear(era, yoe, doy) == civilOfYear(era, yoe, doy, (5 * doy + 2) \div 153)

civilOfYearOfEra(era, doe, yoe) ==
    civilOfDayOfYear(era, yoe, doe - (365 * yoe + yoe \div 4 - yoe \div 100))

civilOfEra(era, doe) ==
    civilOfYearOfEra(era, doe,
                     (doe - doe \div 1460 + doe \div 36524 - doe \div 146096) \div 365)

\* The civil date of a day number (days since 1970-01-01, proleptic Gregorian)
civilFromDays(z0) ==
    civilOfEra((z0 + 719468) \div 146097,
               (z0 + 719468) - ((z0 + 719468) \div 146097) * 146097)

\* n in decimal, padded with zeros to w digits
RECURSIVE pad(_, _)
pad(n, w) == IF w = 0 THEN <<>> ELSE pad(n \div 10, w - 1) \o <<Digits[(n % 10) + 1]>>

\* The ISO 8601 text of a civil date and a time of day in milliseconds
isoText(date, tod) ==
    (IF date.year <= 9999 THEN pad(date.year, 4) ELSE <<"+">> \o pad(date.year, 6))
    \o <<"-">> \o pad(date.month, 2) \o <<"-">> \o pad(date.day, 2)
    \o <<"T">> \o pad(tod \div 3600000, 2)
    \o <<":">> \o pad((tod \div 60000) % 60, 2)
    \o <<":">> \o pad((tod \div 1000) % 60, 2)
    \o <<".">> \o pad(tod % 1000, 3) \o <<"Z">>

\* new Date(ms).toISOString(), for a time at or after 1970
toISOString(ms) == isoText(civilFromDays(epoch + ms \div MsPerDay), ms % MsPerDay)

\* A division that rounds to the nearest integer, for a >= 0 and b > 0
roundDiv(a, b) == (a + b \div 2) \div b

\* Math.trunc(a / b) for b > 0
truncDiv(a, b) == IF a >= 0 THEN a \div b ELSE -((-a) \div b)

----------------------------------------------------------------------------
(* sts.ts                                                                  *)

\* expiryFromDurationSeconds(durationSeconds), called at time t
expiryFromDurationSeconds(durationSeconds, t) ==
    splitFirst(toISOString(truncDiv(t + durationSeconds * 1000, 1000) * 1000),
               <<".", "0", "0", "0", "Z">>) \o <<"Z">>

\* ini.parse(fileContent): one object key per section name, in the order the
\* names first appear; a repeated section adds to and overrides the earlier one
RECURSIVE iniParse(_)
iniParse(sections) ==
    IF sections = <<>> THEN <<>>
    ELSE LET last == sections[Len(sections)]
             before == iniParse(SubSeq(sections, 1, Len(sections) - 1))
             same == {i \in 1..Len(before) : before[i].name = last.name}
         IN  IF same = {}
             THEN before \o <<last>>
             ELSE [i \in 1..Len(before) |->
                      IF i \in same
                      THEN [name |-> last.name, entry |-> last.entry @@ before[i].entry]
                      ELSE before[i]]

\* A delete that empties the object
deleteEveryKey(credentials, name) == <<>>

\* A delete that leaves the key in place
keepKey(credentials, name) == credentials

\* delete credentials[account]
deleteKey(credentials, name) ==
    filterSeq(credentials, {i \in 1..Len(credentials) : credentials[i].name # name})

NoCredentialsFile == [exists |-> FALSE, sections |-> <<>>]

\* updateAwsCredentialsFile(account, role, stsData), called at time t:
\* [raised, file]
updateAwsCredentialsFile(file, acct, rl, stsData, t, writable) ==
    IF writable
    THEN [raised |-> FALSE,
          file |-> [exists |-> TRUE,
                    sections |->
                        deleteKey(IF file.exists THEN iniParse(file.sections) ELSE <<>>,
                                  acct.s)
                        \o <<[name |-> acct.s,
                              entry |->
                                  [aws_access_key_id |-> stsData.o.accessKey,
                                   aws_secret_access_key |-> stsData.o.secretKey,
                                   aws_session_token |-> stsData.o.sessionToken,
                                   expiry |-> Str(expiryFromDurationSeconds(
                                                 stsData.o.leaseDurationSeconds.n, t)),
                                   role |-> rl]]>>]]
    ELSE [raised |-> TRUE, file |-> file]

stsRequest(acct, rl) == [method |-> "get", path |-> V1 \o AWS \o acct.s \o STS \o rl.s]

\* A reading of the sts response that does not check security_token
readStsResponseUnchecked(resp) ==
    LET absent(msg) == [value |-> Undefined, log |-> {msg}] IN
    IF resp = Rejected
    THEN absent("error: Could not assume role")
    ELSE IF ~resp.ok
    THEN absent("error: Non-200 response when assuming role")
    ELSE LET json == resp.body.json IN
         IF json = NotJson \/ InRaises(json)
         THEN absent("error: Could not decode sts token details")
         ELSE IF \/ ~In("data", json)
                 \/ ~In("lease_duration", json)
                 \/ typeof(Get(json, "lease_duration")) # "number"
         THEN absent("error: Malformed sts response")
         ELSE IF InRaises(Get(json, "data"))
         THEN absent("error: Could not decode sts token details")
         ELSE LET data == Get(json, "data") IN
              IF \/ ~In("access_key", data)
                 \/ typeof(Get(data, "access_key")) # "string"
                 \/ ~In("secret_key", data)
                 \/ typeof(Get(data, "secret_key")) # "string"
              THEN absent("error: Malformed sts response")
              ELSE [value |-> Obj([accessKey |-> Get(data, "access_key"),
                                   secretKey |-> Get(data, "secret_key"),
                                   sessionToken |-> Get(data, "security_token"),
                                   leaseDurationSeconds |->
                                       Get(json, "lease_duration")]),
                    log |-> {"info: Successfully assumed role"}]

\* assumeRole() lines 27-84: the credential of the response, [value, log]
readStsResponse(resp) ==
    LET absent(msg) == [value |-> Undefined, log |-> {msg}] IN
    IF resp = Rejected
    THEN absent("error: Could not assume role")
    ELSE IF ~resp.ok
    THEN absent("error: Non-200 response when assuming role")
    ELSE LET json == resp.body.json IN
         IF json = NotJson \/ InRaises(json)
         THEN absent("error: Could not decode sts token details")
         ELSE IF \/ ~In("data", json)
                 \/ ~In("lease_duration", json)
                 \/ typeof(Get(json, "lease_duration")) # "number"
         THEN absent("error: Malformed sts response")
         ELSE IF InRaises(Get(json, "data"))
         THEN absent("error: Could not decode sts token details")
         ELSE LET data == Get(json, "data") IN
              IF \/ ~In("access_key", data)
                 \/ typeof(Get(data, "access_key")) # "string"
                 \/ ~In("secret_key", data)
                 \/ typeof(Get(data, "secret_key")) # "string"
                 \/ ~In("security_token", data)
                 \/ typeof(Get(data, "security_token")) # "string"
              THEN absent("error: Malformed sts response")
              ELSE [value |-> Obj([accessKey |-> Get(data, "access_key"),
                                   secretKey |-> Get(data, "secret_key"),
                                   sessionToken |-> Get(data, "security_token"),
                                   leaseDurationSeconds |->
                                       Get(json, "lease_duration")]),
                    log |-> {"info: Successfully assumed role"}]

\* A return that hands out the credential although the store was not written
returnStsDataAnyway(stsData, update, logged) ==
    IF update.raised
    THEN [value |-> stsData, file |-> update.file, written |-> FALSE,
          log |-> logged
                  \cup {"error: Could not automatically update your ~/.aws/credentials file",
                        "info: The generated credentials are as follows:"}]
    ELSE [value |-> stsData, file |-> update.file, written |-> TRUE,
          log |-> logged \cup {"info: Successfully updated ~/.aws/credentials"}]

\* assumeRole() lines 88-101, given what updateAwsCredentialsFile did and what
\* has been logged: [value, file, written, log]
returnStsData(stsData, update, logged) ==
    IF update.raised
    THEN [value |-> Undefined, file |-> update.file, written |-> FALSE,
          log |-> logged
                  \cup {"error: Could not automatically update your ~/.aws/credentials file",
                        "info: The generated credentials are as follows:"}]
    ELSE [value |-> stsData, file |-> update.file, written |-> TRUE,
          log |-> logged \cup {"info: Successfully updated ~/.aws/credentials"}]

\* assumeRole() lines 86-101, given what the response was read as
persistStsData(read, acct, rl, file, t, writable) ==
    IF read.value = Undefined
    THEN [value |-> Undefined, file |-> file, written |-> FALSE, log |-> read.log]
    ELSE returnStsData(read.value,
                       updateAwsCredentialsFile(file, acct, rl, read.value, t, writable),
                       read.log)

\* assumeRole(token, account, role), called at time t:
\* [value, file, written, log]
assumeRole(acct, rl, resp, file, t, writable) ==
    persistStsData(readStsResponse(resp), acct, rl, file, t, writable)

FederationPath == <<"/", "f", "e", "d", "e", "r", "a", "t", "i", "o", "n">>

\* getSigninToken(keys): [value, log]
getSigninToken(resp) ==
    IF resp = Rejected
    THEN [value |-> Undefined, log |-> {"error: Could not query AWS API for sign-in link"}]
    ELSE IF ~resp.ok
    THEN [value |-> Undefined,
          log |-> {"error: Non-200 response when querying AWS API for sign-in link"}]
    ELSE LET json == resp.body.json IN
         IF json = NotJson \/ InRaises(json)
         THEN [value |-> Undefined,
               log |-> {"error: Could not decode sts sign-in link response"}]
         ELSE IF ~In("SigninToken", json) \/ typeof(Get(json, "SigninToken")) # "string"
         THEN [value |-> Undefined,
               log |-> {"error: Malformed sts response when acquiring sign-in link"}]
         ELSE [value |-> Get(json, "SigninToken"), log |-> {}]

----------------------------------------------------------------------------
(* index.ts: run()                                                         *)

KEYS == <<"k", "e", "y", "s">>
CONSOLE == <<"c", "o", "n", "s", "o", "l", "e">>

\* const [, , command, vaultUrl, mountPrefix, issuer, region, account, role]
\*   = process.argv.filter(...)
Arg(i) == IF i <= Len(argv.pos) THEN argv.pos[i] ELSE Undefined
command == Arg(1)
vaultUrl == Arg(2)
mountPrefix == Arg(3)
issuer == Arg(4)
region == Arg(5)

\* The exit code of a Node.js process whose run() promise is rejected with no
\* handler: 0 after a warning up to Node 14, 1 from Node 15 on.
UnhandledRejectionExitCodes == {0, 1}

Pending == [t |-> "pending"]

exit(code) == pc' = "exited" /\ exitCode' = code

log(messages) == console' = console \cup messages

\* A fetchWithTimeout that sends every request a second time
requestTwice(bag) == requests' = requests (+) bag (+) bag

request(bag) == requests' = requests (+) bag

\* A run() that chooses account and role whatever the command line holds
stageAfterSelecting(acct, rl) == "account"

\* Where run() goes on once vaultToken, acct and rl are as given
stageAfter(acct, rl) ==
    IF Falsy(acct) THEN "account" ELSE IF Falsy(rl) THEN "role" ELSE "assume"

\* index.ts 17-46
runStart ==
    /\ pc = "start"
    /\ IF command \notin {Str(KEYS), Str(CONSOLE)}
       THEN /\ log({"error: Unknown command", "info: Usage"})
            /\ exit(1)
            /\ UNCHANGED <<VAULT_URL, VAULT_MOUNT_PREFIX, account, role>>
       ELSE IF Falsy(vaultUrl)
       THEN /\ log({"error: Missing parameters: vault url is required", "info: Usage"})
            /\ exit(1)
            /\ UNCHANGED <<VAULT_URL, VAULT_MOUNT_PREFIX, account, role>>
       ELSE /\ VAULT_URL' = vaultUrl
            /\ VAULT_MOUNT_PREFIX' =
                   IF Falsy(mountPrefix) THEN VAULT_MOUNT_PREFIX ELSE mountPrefix.s
            /\ IF command = Str(CONSOLE) /\ (Falsy(issuer) \/ Falsy(region))
               THEN /\ log({"error: Missing parameters: issuer and region are required",
                            "info: Usage"})
                    /\ exit(1)
                    /\ UNCHANGED <<account, role>>
               ELSE /\ account' = Arg(6)
                    /\ role' = Arg(7)
                    /\ pc' = "login"
                    /\ UNCHANGED <<exitCode, console>>
    /\ UNCHANGED cachedToken
    /\ UNCHANGED <<argv, env, epoch, now, cacheFile, credentialsFile, vaultToken, keys,
                   signinToken, allAccounts, accessibleMounts, choices, requests,
                   prompts, writes, opened, runs, assumed, response, settled, vaultResult>>

\* index.ts 48-49, given what the call returned
vaultLoginReturns(resp, r) ==
    /\ request(r.request)
    /\ prompts' = IF r.prompted THEN prompts (+) SetToBag({"credentials"})
                  ELSE prompts
    /\ writes' = IF r.written
                 THEN writes (+) SetToBag({[file |-> "cache", at |-> now]})
                 ELSE writes
    /\ cacheFile' = r.file
    /\ log(r.log)
    /\ vaultToken' = r.value
    /\ cachedToken' = r.cachedToken
    /\ vaultResult' = r.result
    /\ response' = IF r.request = EmptyBag THEN response ELSE resp
    /\ IF r.raised
       THEN /\ pc' = "crashed"
            /\ exitCode' \in UnhandledRejectionExitCodes
       ELSE IF Falsy(r.value)
       THEN exit(2)
       ELSE /\ pc' = stageAfter(account, role)
            /\ UNCHANGED exitCode

\* index.ts 48-49
runVaultLogin(Answers, Responses) ==
    /\ pc = "login"
    /\ \E answers \in Answers, resp \in Responses, writable \in BOOLEAN :
          vaultLoginReturns(resp, vaultLogin(argv, env, cacheFile, now, answers, resp, writable))
    /\ UNCHANGED <<argv, env, epoch, now, credentialsFile, VAULT_URL, VAULT_MOUNT_PREFIX,
                   account, role, keys, signinToken, allAccounts, accessibleMounts,
                   choices, opened, runs, assumed, settled>>

\* index.ts 51-52, role-selection.ts 36-75: the mounts request, and the probes
\* that allAccounts.map(...) issues, given what the call returned
mountsFetched(resp, r) ==
    /\ request(SetToBag({[method |-> "get", path |-> MountsPath]})
               (+) BagOfSeq([i \in 1..Len(r.allAccounts) |->
                                probeRequest(r.allAccounts[i])]))
    /\ log(r.log)
    /\ response' = resp
    /\ IF r.failed
       THEN /\ exit(3)
            /\ UNCHANGED <<allAccounts, accessibleMounts, settled>>
       ELSE /\ allAccounts' = r.allAccounts
            /\ accessibleMounts' = [i \in 1..Len(r.allAccounts) |-> Pending]
            /\ settled' = [i \in 1..Len(r.allAccounts) |-> Pending]
            /\ pc' = "probing"
            /\ UNCHANGED exitCode

\* index.ts 51-52, role-selection.ts 36-75: the mounts request, and the probes
\* that allAccounts.map(...) issues
runChooseAccount(Responses) ==
    /\ pc = "account"
    /\ \E resp \in Responses :
          mountsFetched(resp, fetchMounts(VAULT_MOUNT_PREFIX, resp))
    /\ UNCHANGED cachedToken
    /\ UNCHANGED <<argv, env, epoch, now, cacheFile, credentialsFile, VAULT_URL,
                   VAULT_MOUNT_PREFIX, vaultToken, account, role, keys, signinToken,
                   choices, prompts, writes, opened, runs, assumed, vaultResult>>

\* role-selection.ts 10-34: one probe settles, given what the call returned
probeReturns(i, resp, r) ==
    /\ accessibleMounts[i] = Pending
    /\ accessibleMounts' = [accessibleMounts EXCEPT ![i] = r.value]
    /\ settled' = [settled EXCEPT ![i] = resp]
    /\ log(r.log)

\* role-selection.ts 10-34: one probe settles
probeSettles(Responses) ==
    /\ pc = "probing"
    /\ \E i \in 1..Len(allAccounts), resp \in Responses :
          probeReturns(i, resp, mountNameIfAccessible(allAccounts[i], resp))
    /\ UNCHANGED cachedToken
    /\ UNCHANGED <<argv, env, epoch, now, cacheFile, credentialsFile, pc, exitCode, VAULT_URL,
                   VAULT_MOUNT_PREFIX, vaultToken, account, role, keys, signinToken,
                   allAccounts, choices, requests, prompts, writes, opened, runs, assumed,
                   response, vaultResult>>

\* role-selection.ts 73-92: Promise.all resolves and the list is displayed
presentAccounts ==
    /\ pc = "probing"
    /\ \A i \in 1..Len(allAccounts) : accessibleMounts[i] # Pending
    /\ choices' = accountChoices(accessibleMounts)
    /\ prompts' = prompts (+) SetToBag({"account"})
    /\ log({"debug: Filtered to accounts your user can access"})
    /\ pc' = "promptAccount"
    /\ UNCHANGED cachedToken
    /\ UNCHANGED <<argv, env, epoch, now, cacheFile, credentialsFile, exitCode, VAULT_URL,
                   VAULT_MOUNT_PREFIX, vaultToken, account, role, keys, signinToken,
                   allAccounts, accessibleMounts, requests, writes, opened, runs, assumed,
                   response, settled, vaultResult>>

\* role-selection.ts 93, index.ts 52-54: the operator answers
answerAccount ==
    /\ pc = "promptAccount"
    /\ \E answer \in promptAnswers(choices) :
          /\ account' = answer
          /\ IF Falsy(answer)
             THEN exit(3)
             ELSE pc' = stageAfter(answer, role) /\ UNCHANGED exitCode
    /\ allAccounts' = <<>>
    /\ accessibleMounts' = <<>>
    /\ settled' = <<>>
    /\ choices' = <<>>
    /\ UNCHANGED cachedToken
    /\ UNCHANGED <<argv, env, epoch, now, cacheFile, credentialsFile, VAULT_URL,
                   VAULT_MOUNT_PREFIX, vaultToken, role, keys, signinToken, requests,
                   prompts, writes, console, opened, runs, assumed, response, vaultResult>>

\* index.ts 56-58, role-selection.ts 96-166, given what the call returned
chooseRoleReturns(resp, r) ==
    /\ request(SetToBag({rolesRequest(account)}))
    /\ response' = resp
    /\ log(r.log)
    /\ IF r.prompt
       THEN /\ choices' = r.choices
            /\ prompts' = prompts (+) SetToBag({"role"})
            /\ pc' = "promptRole"
            /\ UNCHANGED <<role, exitCode>>
       ELSE /\ role' = r.value
            /\ IF Falsy(r.value)
               THEN exit(4)
               ELSE pc' = "assume" /\ UNCHANGED exitCode
            /\ UNCHANGED <<choices, prompts>>

\* index.ts 56-58, role-selection.ts 96-166
runChooseRole(Responses) ==
    /\ pc = "role"
    /\ \E resp \in Responses :
          chooseRoleReturns(resp, chooseRole(account, resp))
    /\ UNCHANGED cachedToken
    /\ UNCHANGED <<argv, env, epoch, now, cacheFile, credentialsFile, VAULT_URL,
                   VAULT_MOUNT_PREFIX, vaultToken, account, keys, signinToken,
                   allAccounts, accessibleMounts, writes, opened, runs, assumed, settled,
                   vaultResult>>

\* role-selection.ts 167-168, index.ts 57-58: the operator answers
answerRole ==
    /\ pc = "promptRole"
    /\ \E answer \in promptAnswers(choices) :
          /\ role' = answer
          /\ IF Falsy(answer)
             THEN exit(4)
             ELSE pc' = "assume" /\ UNCHANGED exitCode
    /\ choices' = <<>>
    /\ UNCHANGED cachedToken
    /\ UNCHANGED <<argv, env, epoch, now, cacheFile, credentialsFile, VAULT_URL,
                   VAULT_MOUNT_PREFIX, vaultToken, account, keys, signinToken,
                   allAccounts, accessibleMounts, requests, prompts, writes, console,
                   opened, runs, assumed, response, settled, vaultResult>>

\* index.ts 61-70, 92, given what the call returned
assumeRoleReturns(resp, r) ==
    /\ request(SetToBag({stsRequest(account, role)}))
    /\ response' = resp
    /\ credentialsFile' = r.file
    /\ writes' = IF r.written
                 THEN writes (+) SetToBag({[file |-> "credentials", at |-> now]})
                 ELSE writes
    /\ log(r.log)
    /\ keys' = r.value
    /\ assumed' = IF Falsy(r.value) THEN assumed
                  ELSE Append(assumed, [account |-> account, role |-> role,
                                        keys |-> r.value, at |-> now])
    /\ IF Falsy(r.value)
       THEN exit(IF command = Str(KEYS) THEN 5 ELSE 6)
       ELSE IF command = Str(KEYS)
       THEN exit(0)
       ELSE pc' = "signin" /\ UNCHANGED exitCode

\* index.ts 61-70, 92
runAssumeRole(Responses) ==
    /\ pc = "assume"
    /\ \E resp \in Responses, writable \in BOOLEAN :
          assumeRoleReturns(resp, assumeRole(account, role, resp, credentialsFile, now, writable))
    /\ UNCHANGED cachedToken
    /\ UNCHANGED <<argv, env, epoch, now, cacheFile, VAULT_URL, VAULT_MOUNT_PREFIX, vaultToken,
                   account, role, signinToken, allAccounts, accessibleMounts, choices,
                   prompts, opened, runs, settled, vaultResult>>

FederationUrl == <<"h", "t", "t", "p", "s", ":", "/", "/", "s", "i", "g", "n", "i", "n",
                   ".", "a", "w", "s", ".", "a", "m", "a", "z", "o", "n", ".", "c", "o",
                   "m">> \o FederationPath

\* index.ts 72-92, given what the call returned
getSigninTokenReturns(resp, r) ==
    /\ request(SetToBag({[method |-> "get", url |-> FederationUrl,
                          session |-> [sessionId |-> keys.o.accessKey,
                                       sessionKey |-> keys.o.secretKey,
                                       sessionToken |-> keys.o.sessionToken]]}))
    /\ signinToken' = r.value
    /\ response' = resp
    /\ IF Falsy(r.value)
       THEN /\ log(r.log)
            /\ exit(7)
            /\ UNCHANGED opened
       ELSE /\ log(r.log \cup {"info: Sign-in URL"})
            /\ opened' = ("--url-only" \notin argv.flags)
            /\ exit(0)

\* index.ts 72-92
runGetSigninToken(Responses) ==
    /\ pc = "signin"
    /\ \E resp \in Responses :
          getSigninTokenReturns(resp, getSigninToken(resp))
    /\ UNCHANGED cachedToken
    /\ UNCHANGED <<argv, env, epoch, now, cacheFile, credentialsFile, VAULT_URL,
                   VAULT_MOUNT_PREFIX, vaultToken, account, role, keys, allAccounts,
                   accessibleMounts, choices, prompts, writes, runs, assumed, settled,
                   vaultResult>>

----------------------------------------------------------------------------
(* The inputs of a run: command lines, environment, files, answers and     *)
(* responses                                                               *)

URL == <<"h", "t", "t", "p", "s", ":", "/", "/", "v">>
ISSUER == <<"i", "s", "s">>
REGION == <<"e", "u">>
DefaultMountPrefix == <<"a", "w", "s", "/">>

\* Mount keys of /v1/sys/mounts
MountA == <<"a", "w", "s", "/", "a", "/">>
MountB == <<"a", "w", "s", "/", "b", "/">>
MountXA == <<"a", "w", "s", "/", "x", "/", "a", "/">>
MountKv == <<"k", "v", "/">>

AccountA == <<"a">>
AccountB == <<"b">>
RoleRo == <<"r", "o">>
RoleAd == <<"a", "d">>

\* node index.ts <the first n of: command vaultUrl mountPrefix issuer region
\* account role> <flags>
Invocation(cmd, n, prefix, acct, rl, flags) ==
    [pos |-> SubSeq(<<Str(cmd), Str(URL), Str(prefix), Str(ISSUER), Str(REGION),
                      Str(acct), Str(rl)>>, 1, n),
     flags |-> flags]

NoEnv == [VAULT_USERNAME |-> Undefined, VAULT_PASSWORD |-> Undefined]
Envs == {NoEnv,
         [VAULT_USERNAME |-> Str(<<"e">>), VAULT_PASSWORD |-> Undefined],
         [VAULT_USERNAME |-> Str(<<"e">>), VAULT_PASSWORD |-> Str(<<"w">>)]}

\* What the operator types into the credential prompt
TypedAnswers == {[username |-> Str(<<"u">>), password |-> Str(<<"p">>)]}

PermissionDenied == <<"p", "e", "r", "m", "i", "s", "s", "i", "o", "n", " ",
                      "d", "e", "n", "i", "e", "d">>
Html == <<"<", "h", "t", "m", "l", ">">>

\* A stored token
Token(tok, expiration, policies) ==
    Obj([token |-> tok, expiration |-> expiration, policies |-> policies])

LoginBody(tok, lease, policies) ==
    Obj([auth |-> Obj([client_token |-> tok, lease_duration |-> lease,
                       policies |-> policies])])

LoginResponses ==
    {Rejected,
     Response(FALSE, RawBody(PermissionDenied)),
     Response(TRUE, RawBody(Html)),
     Response(TRUE, JsonBody(Null)),
     Response(TRUE, JsonBody(Obj(<<>>))),
     Response(TRUE, JsonBody(Obj([auth |-> Null]))),
     Response(TRUE, JsonBody(Obj([auth |-> Obj([client_token |-> Str(<<"t">>),
                                                lease_duration |-> Num(3600)])]))),
     Response(TRUE, JsonBody(LoginBody(Str(<<"t">>), Num(3600),
                                       Arr(<<Str(<<"p">>)>>))))}

MountsResponses ==
    {Rejected,
     Response(FALSE, RawBody(PermissionDenied)),
     Response(TRUE, RawBody(Html)),
     Response(TRUE, JsonBody(Null)),
     Response(TRUE, JsonBody(Num(1))),
     Response(TRUE, JsonBody(Arr(<<Str(MountA)>>))),
     Response(TRUE, JsonBody(MountsObj(<<MountKv>>))),
     Response(TRUE, JsonBody(MountsObj(<<MountB, MountKv, MountA>>))),
     Response(TRUE, JsonBody(MountsObj(<<MountXA, MountA>>)))}

ProbeResponses ==
    {Rejected,
     Response(FALSE, RawBody(PermissionDenied)),
     Response(TRUE, RawBody(Html))}

RolesBody(ks) == Obj([data |-> Obj([keys |-> ks])])

RolesResponses ==
    {Rejected,
     Response(FALSE, RawBody(PermissionDenied)),
     Response(TRUE, RawBody(Html)),
     Response(TRUE, JsonBody(Null)),
     Response(TRUE, JsonBody(Obj(<<>>))),
     Response(TRUE, JsonBody(Obj([data |-> Null]))),
     Response(TRUE, JsonBody(Obj([data |-> Obj(<<>>)]))),
     Response(TRUE, JsonBody(RolesBody(Str(RoleRo)))),
     Response(TRUE, JsonBody(RolesBody(Arr(<<Str(RoleRo), Num(1)>>)))),
     Response(TRUE, JsonBody(RolesBody(Arr(<<>>)))),
     Response(TRUE, JsonBody(RolesBody(Arr(<<Str(RoleRo)>>)))),
     Response(TRUE, JsonBody(RolesBody(Arr(<<Str(RoleRo), Str(RoleAd)>>))))}

StsBody(ak, sk, st, lease) ==
    Obj([data |-> Obj([access_key |-> ak, secret_key |-> sk, security_token |-> st]),
         lease_duration |-> lease])

AK == Str(<<"a", "k">>)
SK == Str(<<"s", "k">>)
ST == Str(<<"s", "t">>)

\* The sts responses that do not lead to a credential
StsFailures ==
    {Rejected,
     Response(FALSE, RawBody(PermissionDenied)),
     Response(TRUE, RawBody(Html)),
     Response(TRUE, JsonBody(Null)),
     Response(TRUE, JsonBody(Obj([lease_duration |-> Num(3600)]))),
     Response(TRUE, JsonBody(Obj([data |-> Null, lease_duration |-> Num(3600)]))),
     Response(TRUE, JsonBody(Obj([data |-> Obj([access_key |-> AK, secret_key |-> SK,
                                                security_token |-> ST])]))),
     Response(TRUE, JsonBody(StsBody(AK, SK, ST, Str(<<"6", "0">>)))),
     Response(TRUE, JsonBody(Obj([data |-> Obj([secret_key |-> SK,
                                                security_token |-> ST]),
                                  lease_duration |-> Num(3600)]))),
     Response(TRUE, JsonBody(StsBody(Num(1), SK, ST, Num(3600)))),
     Response(TRUE, JsonBody(Obj([data |-> Obj([access_key |-> AK,
                                                security_token |-> ST]),
                                  lease_duration |-> Num(3600)]))),
     Response(TRUE, JsonBody(StsBody(AK, Null, ST, Num(3600)))),
     Response(TRUE, JsonBody(Obj([data |-> Obj([access_key |-> AK, secret_key |-> SK]),
                                  lease_duration |-> Num(3600)]))),
     Response(TRUE, JsonBody(StsBody(AK, SK, Arr(<<ST>>), Num(3600))))}

StsResponses ==
    StsFailures \cup {Response(TRUE, JsonBody(StsBody(AK, SK, ST, Num(3600))))}

FederationResponses ==
    {Rejected,
     Response(FALSE, RawBody(PermissionDenied)),
     Response(TRUE, RawBody(Html)),
     Response(TRUE, JsonBody(Null)),
     Response(TRUE, JsonBody(Obj(<<>>))),
     Response(TRUE, JsonBody(Obj([SigninToken |-> Num(1)]))),
     Response(TRUE, JsonBody(Obj([SigninToken |-> Str(<<"s", "i">>)])))}

\* A profile of ~/.aws/credentials
Profile(name, ak, rl, expiry) ==
    [name |-> name,
     entry |-> [aws_access_key_id |-> ak, aws_secret_access_key |-> SK,
                aws_session_token |-> ST, expiry |-> Str(expiry), role |-> rl]]

OldExpiry == <<"2", "0", "2", "7", "-", "1", "2", "-", "3", "0", "T",
               "0", "8", ":", "0", "0", ":", "0", "0", "Z">>
OldKey == Str(<<"o", "l", "d">>)

\* A credentials file left by earlier runs: profiles for accounts a and b
CredentialsFileAB ==
    [exists |-> TRUE,
     sections |-> <<Profile(AccountA, OldKey, Str(RoleAd), OldExpiry),
                    Profile(AccountB, OldKey, Str(RoleRo), OldExpiry)>>]

\* The clock when the first run starts: 23:59:58.750 on day epoch
StartTime == MsPerDay - 1250

\* The state of a process that has just been started
Started(args, e) ==
    /\ argv = args
    /\ env = e
    /\ pc = "start"
    /\ exitCode = -1
    /\ VAULT_URL = Undefined
    /\ VAULT_MOUNT_PREFIX = DefaultMountPrefix
    /\ vaultToken = Undefined
    /\ account = Undefined
    /\ role = Undefined
    /\ keys = Undefined
    /\ signinToken = Undefined
    /\ allAccounts = <<>>
    /\ accessibleMounts = <<>>
    /\ choices = <<>>
    /\ requests = EmptyBag
    /\ response = Pending
    /\ settled = <<>>
    /\ cachedToken = Undefined
    /\ vaultResult = Undefined
    /\ prompts = EmptyBag
    /\ writes = EmptyBag
    /\ console = {}
    /\ opened = FALSE

----------------------------------------------------------------------------
(* Spec: one run, from any command line                                    *)

Flags == {"--no-pass-prompt", "--url-only"}

\* Command lines with 0 to 7 positional arguments.  The flags and the
\* environment vary where the run reads them: --url-only with console,
\* VAULT_USERNAME and VAULT_PASSWORD with --no-pass-prompt.
CommandLines ==
    {a \in {Invocation(cmd, n, prefix, AccountA, RoleRo, flags) :
                cmd \in {KEYS, CONSOLE, <<"r", "u", "n">>}, n \in 0..7,
                prefix \in {DefaultMountPrefix, <<"a", "w", "s", "/", "a">>},
                flags \in SUBSET Flags} :
        "--url-only" \in a.flags => a.pos # <<>> /\ a.pos[1] = Str(CONSOLE)}

CacheFiles ==
    {NoFile,
     Token(Str(<<"x">>), Num(StartTime - 1000), Arr(<<Str(<<"p">>)>>)),
     Token(Str(<<"x">>), Num(StartTime + 5 * 60 * 1000), Arr(<<Str(<<"p">>)>>))}

Init ==
    /\ \E args \in CommandLines, e \in Envs :
          /\ e # NoEnv => "--no-pass-prompt" \in args.flags
          /\ Started(args, e)
    /\ epoch = EpochDay
    /\ now = StartTime
    /\ cacheFile \in CacheFiles
    /\ credentialsFile = CredentialsFileAB
    /\ assumed = <<>>
    /\ runs = 1

Next ==
    \/ runStart
    \/ runVaultLogin(TypedAnswers, LoginResponses)
    \/ runChooseAccount(MountsResponses)
    \/ probeSettles(ProbeResponses)
    \/ presentAccounts
    \/ answerAccount
    \/ runChooseRole(RolesResponses)
    \/ answerRole
    \/ runAssumeRole(StsResponses)
    \/ runGetSigninToken(FederationResponses)

Spec == Init /\ [][Next]_vars

----------------------------------------------------------------------------
(* SpecCache: the login of one run, over the contents of the cache file    *)

P == Arr(<<Str(<<"p">>)>>)
X == Str(<<"x">>)

\* The expirations of the stored tokens: before the first run, and around
\* five minutes after its start
Expirations == {StartTime - 1000, StartTime + 5 * 60 * 1000 - 1,
                StartTime + 5 * 60 * 1000, StartTime + 5 * 60 * 1000 + 1000}

CacheContents ==
    {NoFile, NotJson, Null, Num(1), X, Arr(<<>>), Obj(<<>>)}
    \cup {Token(X, Num(e), P) : e \in Expirations}
    \cup {Obj([expiration |-> Num(e), policies |-> P]) : e \in Expirations}
    \cup {Token(tok, Num(e), P) : tok \in {Num(42), Null}, e \in Expirations}
    \cup {Token(X, e, P) : e \in {Null, Str(<<"9">>)}}
    \cup {Obj([token |-> X, policies |-> P])}
    \cup {Token(X, Num(e), p) : e \in Expirations,
                                p \in {Str(<<"p">>), Null, Arr(<<>>),
                                       Arr(<<Str(<<"p">>), Num(1)>>),
                                       Arr(<<Str(<<"p">>), Str(<<"q">>)>>)}}
    \cup {Obj([token |-> X, expiration |-> Num(e)]) : e \in Expirations}
    \cup {Obj([token |-> X, expiration |-> Num(e), policies |-> P,
               renewable |-> Bool(TRUE)]) : e \in Expirations}

InitCache ==
    /\ Started(Invocation(KEYS, 7, DefaultMountPrefix, AccountA, RoleRo, {}), NoEnv)
    /\ epoch = EpochDay
    /\ now \in {StartTime, StartTime + 1, StartTime + 1000}
    /\ cacheFile \in CacheContents
    /\ credentialsFile = CredentialsFileAB
    /\ assumed = <<>>
    /\ runs = 1

NextCache ==
    \/ runStart
    \/ runVaultLogin(TypedAnswers, LoginResponses)

SpecCache == InitCache /\ [][NextCache]_vars

----------------------------------------------------------------------------
(* SpecRuns: the keys command run several times, with account and role on  *)
(* the command line                                                        *)

MaxRuns == 2

AK2 == Str(<<"a", "k", "2">>)
SK2 == Str(<<"s", "k", "2">>)
ST2 == Str(<<"s", "t", "2">>)

\* The time between the start of one run and the start of the next
Delays == {1250, 3600500}

KeysCommandLines ==
    {Invocation(KEYS, 7, DefaultMountPrefix, AccountA, RoleRo, {}),
     Invocation(KEYS, 7, DefaultMountPrefix, AccountA, RoleAd, {}),
     Invocation(KEYS, 7, DefaultMountPrefix, AccountB, RoleRo, {})}

\* Credentials files at the first run: none, and a hand-edited file with two
\* [a] sections
CredentialsFiles ==
    {NoCredentialsFile,
     [exists |-> TRUE,
      sections |-> <<Profile(AccountA, OldKey, Str(RoleAd), OldExpiry),
                     Profile(AccountB, OldKey, Str(RoleRo), OldExpiry),
                     Profile(AccountA, AK, Str(RoleRo), OldExpiry)>>]}

RunsLoginResponses ==
    {Response(TRUE, JsonBody(LoginBody(Str(<<"t">>), Num(3600), P)))}

RunsStsResponses ==
    {Response(TRUE, JsonBody(StsBody(AK, SK, ST, Num(3600)))),
     Response(TRUE, JsonBody(StsBody(AK2, SK2, ST2, Num(61)))),
     Response(TRUE, JsonBody(StsBody(AK2, SK2, ST2, Num(1))))}

\* index.ts 13: the program is started again, with the files the earlier runs
\* left
nextRun(Invocations, Waits) ==
    /\ pc \in {"exited", "crashed"}
    /\ runs < MaxRuns
    /\ runs' = runs + 1
    /\ \E args \in Invocations, wait \in Waits :
          /\ argv' = args
          /\ now' = now + wait
    /\ env' = NoEnv
    /\ pc' = "start"
    /\ exitCode' = -1
    /\ VAULT_URL' = Undefined
    /\ VAULT_MOUNT_PREFIX' = DefaultMountPrefix
    /\ vaultToken' = Undefined
    /\ account' = Undefined
    /\ role' = Undefined
    /\ keys' = Undefined
    /\ signinToken' = Undefined
    /\ allAccounts' = <<>>
    /\ accessibleMounts' = <<>>
    /\ choices' = <<>>
    /\ requests' = EmptyBag
    /\ response' = Pending
    /\ settled' = <<>>
    /\ cachedToken' = Undefined
    /\ vaultResult' = Undefined
    /\ prompts' = EmptyBag
    /\ writes' = EmptyBag
    /\ console' = {}
    /\ opened' = FALSE
    /\ UNCHANGED <<epoch, cacheFile, credentialsFile, assumed>>

InitRuns ==
    /\ \E args \in KeysCommandLines : Started(args, NoEnv)
    /\ epoch \in {EpochDay, LateEpochDay}
    /\ now = StartTime
    /\ cacheFile = NoFile
    /\ credentialsFile \in CredentialsFiles
    /\ assumed = <<>>
    /\ runs = 1

NextRuns ==
    \/ runStart
    \/ runVaultLogin(TypedAnswers, RunsLoginResponses)
    \/ runAssumeRole(RunsStsResponses)
    \/ nextRun(KeysCommandLines, Delays)

SpecRuns == InitRuns /\ [][NextRuns]_vars

----------------------------------------------------------------------------
(* SpecRoundTrip: the keys command run several times, over the login       *)
(* bodies that fetchVaultToken accepts                                     *)

RoundTripCommandLines == {Invocation(KEYS, 7, DefaultMountPrefix, AccountA, RoleRo, {})}

\* The values of auth.lease_duration and of auth.policies in a login body
LeaseDurations ==
    {Num(3600), Num(1), Str(<<"3", "6", "0", "0">>), Str(<<"x">>), Null, Bool(TRUE)}

PoliciesValues ==
    {P, Arr(<<>>), Arr(<<Str(<<"p">>), Str(<<"q">>)>>), Arr(<<Str(<<"p">>), Num(1)>>),
     Str(<<"p">>), Null}

\* Login responses whose body carries auth.client_token, auth.lease_duration
\* and auth.policies
AcceptedLoginResponses ==
    {Response(TRUE, JsonBody(LoginBody(tok, lease, policies))) :
        tok \in {Str(<<"t">>), Num(42)}, lease \in LeaseDurations,
        policies \in PoliciesValues}

InitRoundTrip ==
    /\ \E args \in RoundTripCommandLines : Started(args, NoEnv)
    /\ epoch = EpochDay
    /\ now = StartTime
    /\ cacheFile = NoFile
    /\ credentialsFile = CredentialsFileAB
    /\ assumed = <<>>
    /\ runs = 1

NextRoundTrip ==
    \/ runStart
    \/ runVaultLogin(TypedAnswers, AcceptedLoginResponses)
    \/ runAssumeRole({Rejected})
    \/ nextRun(RoundTripCommandLines, Delays)

SpecRoundTrip == InitRoundTrip /\ [][NextRoundTrip]_vars

----------------------------------------------------------------------------
(* Properties                                                              *)

Terminated == pc \in {"exited", "crashed"}

FiveMinutes == 5 * 60 * 1000

\* The token a cache file stores
StoredToken(file) ==
    Obj([token |-> Get(file, "token"), expiration |-> Get(file, "expiration"),
         policies |-> Get(file, "policies")])

\* A cache file whose fields have the types of VaultToken
WellTypedToken(file) ==
    /\ file.t = "object"
    /\ In("token", file) /\ typeof(Get(file, "token")) = "string"
    /\ In("expiration", file) /\ typeof(Get(file, "expiration")) = "number"
    /\ In("policies", file) /\ isArray(Get(file, "policies"))
    /\ everyString(Get(file, "policies").a)

\* C1.  Whatever the cache file holds and whatever the time, the cache load
\* of a login returns the stored token unmodified exactly when its fields
\* are well-typed (a string token, a numeric expiration, policies a list of
\* strings) and its expiration is at least five minutes after now; in every
\* other case it returns absent.
C1_CacheValidity ==
    [][pc = "login" =>
          cachedToken' = IF /\ WellTypedToken(cacheFile)
                            /\ Get(cacheFile, "expiration").n >= now + FiveMinutes
                         THEN StoredToken(cacheFile)
                         ELSE Undefined]_vars

ArgumentsValid ==
    /\ command \in {Str(KEYS), Str(CONSOLE)}
    /\ ~Falsy(vaultUrl)
    /\ command = Str(CONSOLE) => ~Falsy(issuer) /\ ~Falsy(region)

\* The code of the first stage that did not succeed, 0 when there is none
StageExitCode ==
    IF ~ArgumentsValid THEN 1
    ELSE IF Falsy(vaultToken) THEN 2
    ELSE IF Falsy(account) THEN 3
    ELSE IF Falsy(role) THEN 4
    ELSE IF Falsy(keys) THEN (IF command = Str(KEYS) THEN 5 ELSE 6)
    ELSE IF command = Str(CONSOLE) /\ Falsy(signinToken) THEN 7
    ELSE 0

StageRank(p) ==
    CASE p = "start" -> 1
      [] p = "login" -> 2
      [] p \in {"account", "probing", "promptAccount"} -> 3
      [] p \in {"role", "promptRole"} -> 4
      [] p = "assume" -> 5
      [] p = "signin" -> 6
      [] p \in {"exited", "crashed"} -> 7

\* The stages that follow the one with exit code `code` did nothing
LaterStagesIdle(code) ==
    /\ code = 1 => requests = EmptyBag /\ prompts = EmptyBag /\ vaultToken = Undefined
    /\ code \in 1..2 =>
          /\ \A r \in BagToSet(requests) : r.method = "post"
          /\ BagToSet(prompts) \subseteq {"credentials"}
          /\ account \in {Undefined, Arg(6)}
    /\ code \in 1..3 => BagToSet(prompts) \subseteq {"credentials", "account"}
    /\ code \in 1..4 =>
          /\ keys = Undefined
          /\ \A w \in BagToSet(writes) : w.file = "cache"
    /\ code \in 1..6 =>
          /\ signinToken = Undefined
          /\ \A r \in BagToSet(requests) : "url" \notin DOMAIN r
    /\ code # 0 => ~opened

\* C2.  The stages of a run happen in the order argument validation,
\* authentication, account choice, role choice, role assumption, sign-in
\* token; a run that has ended has the exit code of its first failing stage
\* (1, 2, 3, 4, 5 or 6, 7) and 0 when none failed, and no stage after the
\* failing one issued a request or wrote a file.
C2_StagesAndExitCodes ==
    /\ [][StageRank(pc) <= StageRank(pc')]_vars
    /\ [](Terminated => exitCode = StageExitCode /\ LaterStagesIdle(exitCode))

\* C3.  A login whose cache load returns a valid token returns that token
\* with no credential prompt, no login POST and no cache write; a login whose
\* cached token is treated as absent acquires credentials and issues the
\* login POST.
C3_CacheSkipsAuthentication ==
    [][pc = "login" =>
          LET loaded == loadCachedVaultTokenIfValid(cacheFile, now).value
              username == IF /\ "--no-pass-prompt" \in argv.flags
                             /\ ~Falsy(env.VAULT_USERNAME)
                             /\ ~Falsy(env.VAULT_PASSWORD)
                          THEN env.VAULT_USERNAME.s
                          ELSE <<"u">>
          IN  IF loaded # Undefined
              THEN /\ vaultToken' = loaded
                   /\ prompts' = prompts
                   /\ requests' = requests
                   /\ writes' = writes
                   /\ cacheFile' = cacheFile
              ELSE /\ requests' = requests (+)
                          SetToBag({[method |-> "post", path |-> LoginPath \o username]})
                   /\ \/ prompts' = prompts (+) SetToBag({"credentials"})
                      \/ /\ prompts' = prompts
                         /\ "--no-pass-prompt" \in argv.flags
                         /\ username = env.VAULT_USERNAME.s]_vars

\* C3 happens: a run went past its login on the cached token alone.
C3_Witness ==
    /\ pc \notin {"start", "login"}
    /\ vaultToken = Token(Str(<<"x">>), Num(StartTime + FiveMinutes), P)
    /\ cacheFile = vaultToken
    /\ requests = EmptyBag
    /\ prompts = EmptyBag
    /\ writes = EmptyBag

\* C4.  When the login POST is answered with a non-success status, the
\* result of the authentication is the error VaultPostNot200 with the raw
\* text of the response body as its details, no token is returned, the token
\* cache is not written, and the run exits with code 2.
C4_NonSuccessStatus ==
    [][(/\ pc = "login"
        /\ requests' # requests
        /\ response'.kind = "response"
        /\ ~response'.ok)
       => /\ vaultResult' = VaultError("VaultPostNot200", response'.body.raw)
          /\ vaultToken' = Undefined
          /\ cacheFile' = cacheFile
          /\ writes' = writes
          /\ pc' = "exited"
          /\ exitCode' = 2]_vars

\* C4 happens: the POST was answered "permission denied" and the run ended.
C4_Witness ==
    /\ pc = "exited"
    /\ exitCode = 2
    /\ response = Response(FALSE, RawBody(PermissionDenied))
    /\ vaultResult = VaultError("VaultPostNot200", Str(PermissionDenied))
    /\ cacheFile = Token(Str(<<"x">>), Num(StartTime - 1000), P)

\* The credentials store holds one section per profile
Sections == credentialsFile.sections

EntriesFor(name) == {i \in 1..Len(Sections) : Sections[i].name = name}

\* The entry of the store that a credential assumed for role rl at time t
\* makes
EntryOf(credential, rl, t) ==
    [aws_access_key_id |-> credential.o.accessKey,
     aws_secret_access_key |-> credential.o.secretKey,
     aws_session_token |-> credential.o.sessionToken,
     expiry |-> Str(expiryFromDurationSeconds(credential.o.leaseDurationSeconds.n, t)),
     role |-> rl]

\* C5.  After two successful role assumptions for the same account, the
\* first with one role and the second with a different role, the credentials
\* store has exactly one entry for the account, and the entry holds the
\* access key, secret key, session token, role and expiry of the second
\* assumption and nothing else.
C5_SecondAssumptionReplacesFirst ==
    IF Len(assumed) < 2 THEN TRUE
    ELSE LET first == assumed[Len(assumed) - 1]
             second == assumed[Len(assumed)]
         IN  first.account = second.account /\ first.role # second.role
             => /\ Cardinality(EntriesFor(second.account.s)) = 1
                /\ \A i \in EntriesFor(second.account.s) :
                      Sections[i].entry = EntryOf(second.keys, second.role, second.at)

\* C5 happens: account a was assumed with role ro and then, in a later run,
\* with role ad and another credential; the store has the two sections a
\* and b.
C5_Witness ==
    /\ pc = "exited"
    /\ exitCode = 0
    /\ Len(assumed) = 2
    /\ assumed[1].account = Str(AccountA) /\ assumed[1].role = Str(RoleRo)
    /\ assumed[2].account = Str(AccountA) /\ assumed[2].role = Str(RoleAd)
    /\ assumed[1].keys.o.accessKey = AK
    /\ assumed[2].keys.o.accessKey = AK2
    /\ assumed[1].at < assumed[2].at
    /\ Len(Sections) = 2

HasString(v, k) == In(k, v) /\ typeof(Get(v, k)) = "string"

\* A response to the sts request with which the role assumption fails before
\* it persists anything
FailsBeforePersistence(resp) ==
    \/ resp = Rejected
    \/ ~resp.ok
    \/ ~ /\ HasString(Get(resp.body.json, "data"), "access_key")
         /\ HasString(Get(resp.body.json, "data"), "secret_key")
         /\ HasString(Get(resp.body.json, "data"), "security_token")
         /\ In("lease_duration", resp.body.json)
         /\ typeof(Get(resp.body.json, "lease_duration")) = "number"

\* C6.  A role assumption that meets a network failure, a non-success
\* status, or a body that lacks or mistypes data.access_key, data.secret_key,
\* data.security_token or lease_duration returns absent and leaves the
\* credentials store, the account's entry included, as it was.
C6_FailureLeavesStore ==
    [][pc = "assume" /\ FailsBeforePersistence(response')
       => /\ keys' = Undefined
          /\ credentialsFile' = credentialsFile
          /\ writes' = writes]_vars

\* C6 happens: the response for account a lacked data.security_token, the
\* run ended and the store has the entry for a that it had before.
C6_Witness ==
    /\ pc = "exited"
    /\ exitCode \in {5, 6}
    /\ account = Str(AccountA)
    /\ response = Response(TRUE, JsonBody(Obj([data |-> Obj([access_key |-> AK,
                                                             secret_key |-> SK]),
                                               lease_duration |-> Num(3600)])))
    /\ keys = Undefined
    /\ credentialsFile = CredentialsFileAB

\* The role assumption got a valid response and did not write the store
StoreNotWritten ==
    /\ pc = "assume"
    /\ ~FailsBeforePersistence(response')
    /\ writes' = writes

GeneratedCredentialsLogged ==
    "info: The generated credentials are as follows:" \in console'

\* C7 as stated.  When the response is valid and the credentials store cannot
\* be written, the role assumption logs the credential and still returns it,
\* and the console command goes on to getSigninToken with it.
C7_CredentialStillReturned ==
    [][StoreNotWritten
       => /\ GeneratedCredentialsLogged
          /\ keys' # Undefined
          /\ command = Str(CONSOLE) => pc' = "signin"]_vars

\* C7.  When the response is valid and the credentials store cannot be
\* written, the role assumption logs the credential and returns absent: the
\* store stays as it was, the run ends with code 5 (keys) or 6 (console), and
\* getSigninToken is not called.
C7_UnwrittenStoreFailsAssumption ==
    [][StoreNotWritten
       => /\ GeneratedCredentialsLogged
          /\ keys' = Undefined
          /\ credentialsFile' = credentialsFile
          /\ pc' = "exited"
          /\ exitCode' = (IF command = Str(KEYS) THEN 5 ELSE 6)
          /\ \A r \in BagToSet(requests') : "url" \notin DOMAIN r]_vars

\* C7 happens: a console run got a valid sts response, could not write the
\* store, and ended.
C7_Witness ==
    /\ pc = "exited"
    /\ exitCode = 6
    /\ command = Str(CONSOLE)
    /\ response = Response(TRUE, JsonBody(StsBody(AK, SK, ST, Num(3600))))
    /\ "info: The generated credentials are as follows:" \in console
    /\ \A w \in BagToSet(writes) : w.file = "cache"
    /\ credentialsFile = CredentialsFileAB

\* days since 1970-01-01 of a civil date
daysFromCivil(y, m, d) ==
    LET yy == IF m <= 2 THEN y - 1 ELSE y
        era == yy \div 400
        yoe == yy - era * 400
        doy == (153 * (IF m > 2 THEN m - 3 ELSE m + 9) + 2) \div 5 + d - 1
        doe == yoe * 365 + yoe \div 4 - yoe \div 100 + doy
    IN  era * 146097 + doe - 719468

\* text has the form YYYY-MM-DDTHH:MM:SSZ
IsTimestamp(text) ==
    /\ Len(text) = 20
    /\ text[5] = "-" /\ text[8] = "-" /\ text[11] = "T"
    /\ text[14] = ":" /\ text[17] = ":" /\ text[20] = "Z"
    /\ \A i \in (1..19) \ {5, 8, 11, 14, 17} : IsDigits(<<text[i]>>)

Field(text, from, to) == DigitsValue(SubSeq(text, from, to))

\* text is the timestamp of the second that holds the instant ms
\* milliseconds after the start of day epoch
DenotesSecondOf(text, ms) ==
    /\ IsTimestamp(text)
    /\ Field(text, 6, 7) \in 1..12
    /\ Field(text, 9, 10) \in 1..31
    /\ Field(text, 12, 13) \in 0..23
    /\ Field(text, 15, 16) \in 0..59
    /\ Field(text, 18, 19) \in 0..59
    /\ daysFromCivil(Field(text, 1, 4), Field(text, 6, 7), Field(text, 9, 10))
           = epoch + ms \div MsPerDay
    /\ Field(text, 12, 13) * 3600 + Field(text, 15, 16) * 60 + Field(text, 18, 19)
           = (ms % MsPerDay) \div 1000

\* The last successful role assumption, and the expiry it wrote
LastAssumed == assumed[Len(assumed)]
LastExpiryMillis == LastAssumed.at + LastAssumed.keys.o.leaseDurationSeconds.n * 1000
WrittenExpiry ==
    Sections[CHOOSE i \in EntriesFor(LastAssumed.account.s) : TRUE].entry.expiry.s

\* C8 as stated.  For every time now and every positive lease duration, the
\* expiry written to the credentials store is the instant now + lease
\* truncated down to a whole second, in the form YYYY-MM-DDTHH:MM:SSZ.
C8_ExpiryAtAnyTime ==
    assumed # <<>> /\ LastAssumed.keys.o.leaseDurationSeconds.n > 0
    => DenotesSecondOf(WrittenExpiry, LastExpiryMillis)

\* C8.  For every time now and every positive lease duration whose sum is
\* before the year 10000, the expiry written to the credentials store is the
\* instant now + lease truncated down to a whole second, in the form
\* YYYY-MM-DDTHH:MM:SSZ.
C8_ExpiryBeforeYear10000 ==
    /\ assumed # <<>>
    /\ LastAssumed.keys.o.leaseDurationSeconds.n > 0
    /\ epoch + LastExpiryMillis \div MsPerDay < daysFromCivil(10000, 1, 1)
    => DenotesSecondOf(WrittenExpiry, LastExpiryMillis)

\* C8 happens: 61 seconds of lease from 2027-12-31T23:59:58.750Z are written
\* as 2028-01-01T00:00:59Z, and one second of lease from
\* 9999-12-31T23:59:58.750Z as 9999-12-31T23:59:59Z.
C8_Witness ==
    /\ assumed # <<>>
    /\ LastAssumed.at = StartTime
    /\ \/ /\ epoch = EpochDay
          /\ LastAssumed.keys.o.leaseDurationSeconds = Num(61)
          /\ WrittenExpiry = <<"2", "0", "2", "8", "-", "0", "1", "-", "0", "1", "T",
                               "0", "0", ":", "0", "0", ":", "5", "9", "Z">>
       \/ /\ epoch = LateEpochDay
          /\ LastAssumed.keys.o.leaseDurationSeconds = Num(1)
          /\ WrittenExpiry = <<"9", "9", "9", "9", "-", "1", "2", "-", "3", "1", "T",
                               "2", "3", ":", "5", "9", ":", "5", "9", "Z">>

\* A response to the roles request that holds a well-formed role list
WellFormedRoleList(resp) ==
    /\ resp # Rejected
    /\ resp.ok
    /\ In("keys", Get(resp.body.json, "data"))
    /\ isArray(Get(Get(resp.body.json, "data"), "keys"))
    /\ everyString(Get(Get(resp.body.json, "data"), "keys").a)

RoleList(resp) == Get(Get(resp.body.json, "data"), "keys").a

\* C9.  Given a well-formed role list, chooseRole returns the only role
\* without asking when the list has one entry, returns absent and logs an
\* error without asking when the list is empty, and asks the operator only
\* when the list has more than one entry.
C9_RoleSelection ==
    [][pc = "role" =>
          IF WellFormedRoleList(response')
          THEN /\ Len(RoleList(response')) = 1
                  => /\ role' = RoleList(response')[1]
                     /\ prompts' = prompts
                     /\ pc' = "assume"
               /\ Len(RoleList(response')) = 0
                  => /\ role' = Undefined
                     /\ "error: No roles available for account" \in console'
                     /\ prompts' = prompts
                     /\ pc' = "exited" /\ exitCode' = 4
               /\ Len(RoleList(response')) > 1
                  => /\ prompts' = prompts (+) SetToBag({"role"})
                     /\ BagOfSeq(choices')
                            = BagOfSeq([i \in 1..Len(RoleList(response')) |->
                                           RoleList(response')[i].s])
                     /\ pc' = "promptRole"
          ELSE prompts' = prompts]_vars

\* C9 happens: the list held one role, and the run went on to assume it
\* without a role prompt.
C9_Witness ==
    /\ pc = "assume"
    /\ response = Response(TRUE, JsonBody(RolesBody(Arr(<<Str(RoleRo)>>))))
    /\ role = Str(RoleRo)
    /\ "role" \notin BagToSet(prompts)

\* The name under which a mount is listed
ListedName(mount) == splitLast(substring0(mount, Len(mount) - 1))

MountKeys == ObjectKeys(response.body.json)

\* C10.  In chooseAccount, whatever the mounts response and however the
\* probes end, only mounts whose key starts with the mount prefix are
\* probed, and every account offered for selection is the name of a mount
\* whose key starts with the prefix and whose probe had a success status.
C10_DiscoveryFiltering ==
    pc \in {"probing", "promptAccount"}
    => /\ \A r \in BagToSet(requests) :
             r.method = "list"
             => \E i \in 1..Len(MountKeys) :
                   /\ startsWith(MountKeys[i], VAULT_MOUNT_PREFIX)
                   /\ r = [method |-> "list", path |-> V1 \o MountKeys[i] \o ROLES]
       /\ \A k \in 1..Len(MountKeys) :
             ~startsWith(MountKeys[k], VAULT_MOUNT_PREFIX)
             => [method |-> "list", path |-> V1 \o MountKeys[k] \o ROLES]
                    \notin BagToSet(requests)
       /\ pc = "promptAccount"
          => \A j \in 1..Len(choices) :
                \E i \in 1..Len(allAccounts) :
                   /\ \E k \in 1..Len(MountKeys) : MountKeys[k] = allAccounts[i]
                   /\ startsWith(allAccounts[i], VAULT_MOUNT_PREFIX)
                   /\ settled[i] # Rejected
                   /\ settled[i].ok
                   /\ choices[j] = ListedName(allAccounts[i])

\* C10 happens: of the mounts aws/b/, kv/ and aws/a/, kv/ was not probed,
\* the probe of aws/a/ failed, and only b is offered.
C10_Witness ==
    /\ pc = "promptAccount"
    /\ response = Response(TRUE, JsonBody(MountsObj(<<MountB, MountKv, MountA>>)))
    /\ allAccounts = <<MountB, MountA>>
    /\ settled[1] = Response(TRUE, RawBody(Html))
    /\ settled[2] \in {Rejected, Response(FALSE, RawBody(PermissionDenied))}
    /\ choices = <<AccountB>>

\* C11.  No exception crosses a component boundary: whatever the responses,
\* login, chooseAccount, chooseRole, assumeRole and getSigninToken return an
\* error value or absent, so a run that has ended has ended through
\* process.exit with one of the exit codes 0 to 7.
C11_NoExceptionEscapes ==
    Terminated => pc = "exited" /\ exitCode \in 0..7

NoPassPrompt == "--no-pass-prompt" \in argv.flags

\* Both VAULT_USERNAME and VAULT_PASSWORD are set to something
EnvCredentials == ~Falsy(env.VAULT_USERNAME) /\ ~Falsy(env.VAULT_PASSWORD)

LoginRequestAs(username) == [method |-> "post", path |-> LoginPath \o username.s]

AllParameters == Len(argv.pos) = 7

CarriesToken(json) ==
    /\ In("client_token", Get(json, "auth"))
    /\ In("lease_duration", Get(json, "auth"))
    /\ In("policies", Get(json, "auth"))

\* The login POST was answered with a success status and a JSON body
LoginAnsweredWithJson ==
    /\ pc = "login"
    /\ requests' # requests
    /\ response'.kind = "response"
    /\ response'.ok
    /\ response'.body.json # NotJson

\* C14.  A successful login response whose JSON body does not carry all of
\* auth.client_token, auth.lease_duration and auth.policies gives the error
\* InvalidBody with the serialized body as details; any other gives the
\* token with token = auth.client_token, policies = auth.policies and
\* expiration = now + lease_duration * 1000.
C14_LoginBody ==
    [][LoginAnsweredWithJson =>
          IF CarriesToken(response'.body.json)
          THEN /\ Get(vaultResult', "token")
                      = Get(Get(response'.body.json, "auth"), "client_token")
               /\ Get(vaultResult', "policies")
                      = Get(Get(response'.body.json, "auth"), "policies")
               /\ Get(Get(response'.body.json, "auth"), "lease_duration").t = "number"
                  => Get(vaultResult', "expiration")
                         = Num(now + Get(Get(response'.body.json, "auth"),
                                         "lease_duration").n * 1000)
          ELSE vaultResult' = VaultError("InvalidBody",
                                         JSONstringify(response'.body.json))]_vars

\* The login got a token and the token cache was not written
CacheWriteFailed ==
    /\ pc = "login"
    /\ In("token", vaultResult')
    /\ writes' = writes

CacheWarning == "warn: Could not cache vault token"

\* C15.  A failure to write the token cache after a successful login is
\* logged and does not abort the flow: the login returns the new token, the
\* run goes on to the account choice, role choice or role assumption with it,
\* and the run ends with the code of its first failing stage after the login,
\* 0 when there is none, as it does when the write succeeds.
C15_CacheWriteFailureTolerated ==
    /\ [][CacheWriteFailed
          => /\ CacheWarning \in console'
             /\ vaultToken' = vaultResult'
             /\ cacheFile' = cacheFile
             /\ pc' = (IF Falsy(account) THEN "account"
                       ELSE IF Falsy(role) THEN "role" ELSE "assume")]_vars
    /\ [](Terminated /\ CacheWarning \in console
          => pc = "exited" /\ exitCode # 2 /\ exitCode = StageExitCode)

\* C15 happens: the cache could not be written, and the run assumed the role
\* with the new token and ended with code 0.
C15_Witness ==
    /\ pc = "exited"
    /\ exitCode = 0
    /\ CacheWarning \in console
    /\ cacheFile = NoFile
    /\ In("token", vaultToken)
    /\ keys # Undefined
    /\ \A w \in BagToSet(writes) : w.file = "credentials"

\* The positions of run() in the order in which a run passes them
StepRank(p) ==
    CASE p = "start" -> 1
      [] p = "login" -> 2
      [] p = "account" -> 3
      [] p = "probing" -> 4
      [] p = "promptAccount" -> 5
      [] p = "role" -> 6
      [] p = "promptRole" -> 7
      [] p = "assume" -> 8
      [] p = "signin" -> 9
      [] p \in {"exited", "crashed"} -> 10

\* The requests a step issues
Issued == requests' (-) requests

\* A run never comes back to a position it has left; the requests of a
\* position are issued in the one step that leaves it, each of them once:
\* the login POST, the mounts GET with the probes, the roles LIST, the sts
\* GET, the federation GET.
NoRetry ==
    /\ StepRank(pc) <= StepRank(pc')
    /\ requests' # requests
       => /\ StepRank(pc) < StepRank(pc')
          /\ requests' = requests (+) Issued
          /\ \A r \in BagToSet(Issued) : CopiesIn(r, Issued) = 1
          /\ pc \in {"login", "account", "role", "assume", "signin"}
          /\ pc = "login"
             => \E username \in {answers.username : answers \in TypedAnswers}
                                 \cup (IF EnvCredentials THEN {env.VAULT_USERNAME} ELSE {}) :
                   Issued = SetToBag({LoginRequestAs(username)})
          /\ pc = "account"
             => /\ [method |-> "get", path |-> MountsPath] \in BagToSet(Issued)
                /\ \A r \in BagToSet(Issued) :
                      r.method = "get" \/ \E i \in 1..Len(allAccounts') :
                                             r = probeRequest(allAccounts'[i])
          /\ pc = "role" => Issued = SetToBag({rolesRequest(account)})
          /\ pc = "assume" => Issued = SetToBag({stsRequest(account, role)})
          /\ pc = "signin" => BagCardinality(Issued) = 1

\* The request of a stage (login POST, mounts GET, roles LIST, sts GET,
\* federation GET) timed out
StageTimedOut ==
    /\ pc \in {"login", "account", "role", "assume", "signin"}
    /\ requests' # requests
    /\ response' = Rejected

\* The stage at pc yields its error or absent result and the run ends with
\* the stage's code
StageFailed ==
    /\ pc' = "exited"
    /\ exitCode' = (CASE pc = "login" -> 2
                      [] pc = "account" -> 3
                      [] pc = "role" -> 4
                      [] pc = "assume" -> (IF command = Str(KEYS) THEN 5 ELSE 6)
                      [] pc = "signin" -> 7)
    /\ pc = "login"
       => /\ vaultResult' = VaultError("FetchError", JSONstringify(FetchFailure))
          /\ vaultToken' = Undefined
    /\ pc = "account" => account' = Undefined
    /\ pc = "role" => role' = Undefined
    /\ pc = "assume" => keys' = Undefined /\ credentialsFile' = credentialsFile
    /\ pc = "signin" => signinToken' = Undefined /\ ~opened'

\* The account list is on display and a probe had timed out
ProbeTimedOut ==
    /\ pc = "promptAccount"
    /\ \E i \in 1..Len(settled) : settled[i] = Rejected

ProbeWarning == "warn: Could not fetch role details for mount"

\* C16 as stated.  No request is issued more than once, and a timeout of any
\* request, a per-mount probe included, is fatal for the stage it belongs
\* to: the stage yields its error or absent result.
C16_EveryTimeoutFatal ==
    /\ [][NoRetry]_vars
    /\ [][StageTimedOut => StageFailed]_vars
    /\ [][ProbeTimedOut => pc' = "exited" /\ exitCode' = 3]_vars

\* C16.  No request is issued more than once.  A timeout of the login POST,
\* the mounts GET, the roles LIST, the sts GET or the federation GET is fatal
\* for its stage, which yields its error or absent result (exit codes 2, 3,
\* 4, 5 or 6, 7); a timeout of a per-mount probe is logged and makes that
\* probe yield absent, and the account choice goes on.
C16_SingleAttempt ==
    /\ [][NoRetry]_vars
    /\ [][StageTimedOut => StageFailed]_vars
    /\ [](\A i \in 1..Len(settled) :
             settled[i] = Rejected
             => accessibleMounts[i] = Undefined /\ ProbeWarning \in console)
    /\ [][pc = "probing" => pc' \in {"probing", "promptAccount"}]_vars

\* C16 happens: a console run issued the login POST, the mounts GET, probes,
\* the roles LIST, the sts GET and the federation GET once each; a probe had
\* timed out on the way, and the timeout of the federation GET ended the run
\* with code 7.
C16_Witness ==
    /\ pc = "exited"
    /\ exitCode = 7
    /\ response = Rejected
    /\ ProbeWarning \in console
    /\ BagCardinality(requests) >= 7

\* The lines the program prints with console.error or console.warn
Diagnostics ==
    {"error: Could not assume role",
     "error: Could not authenticate to Vault",
     "error: Could not automatically update your ~/.aws/credentials file",
     "error: Could not decode sts sign-in link response",
     "error: Could not decode sts token details",
     "error: Could not fetch Vault mounts",
     "error: Could not fetch Vault mounts: returned non-200.",
     "error: Could not fetch role details for account",
     "error: Could not fetch role details",
     "error: Could not query AWS API for sign-in link",
     "error: Invalid JSON received from Vault mounts endpoint",
     "error: Malformed role list",
     "error: Malformed sts response when acquiring sign-in link",
     "error: Malformed sts response",
     "error: Missing parameters: issuer and region are required",
     "error: Missing parameters: vault url is required",
     "error: No roles available for account",
     "error: Non-200 response when assuming role",
     "error: Non-200 response when fetching roles",
     "error: Non-200 response when querying AWS API for sign-in link",
     "error: Unknown command",
     CacheWarning,
     ProbeWarning,
     "warn: Could not see both VAULT_USERNAME and VAULT_PASSWORD"}

\* C17 as stated.  A run that ended with a non-zero code has printed a
\* diagnostic: a line at error or warning level is on the console.
C17_DiagnosticBeforeExit ==
    Terminated /\ exitCode # 0 => console \cap Diagnostics # {}

\* What the probe of a mount yields, from its own outcome alone
ProbeYield(mount, outcome) ==
    IF outcome # Rejected /\ outcome.ok THEN Str(ListedName(mount)) ELSE Undefined

\* The names of the mounts whose probes had a success status
RECURSIVE ListedNames(_, _)
ListedNames(mounts, outcomes) ==
    IF mounts = <<>> THEN EmptyBag
    ELSE ListedNames(Tail(mounts), Tail(outcomes))
         (+) (IF Head(outcomes) # Rejected /\ Head(outcomes).ok
              THEN SetToBag({ListedName(Head(mounts))}) ELSE EmptyBag)

Sorted(list) == \A j, k \in 1..Len(list) : j < k => ~stringLess(list[k], list[j])

\* C18.  The probes of chooseAccount settle one at a time in any order; a
\* probe that settles changes the result of its own mount only, the result
\* of a mount is determined by the outcome of its own probe, and the list
\* displayed is sorted and holds the names of the mounts whose probes
\* succeeded, whatever the order in which the probes settled.
C18_ProbeOrderIndependent ==
    /\ [][pc = "probing" /\ pc' = "probing"
          => \E i \in 1..Len(allAccounts) :
                /\ settled[i] = Pending /\ settled'[i] # Pending
                /\ \A j \in 1..Len(allAccounts) :
                      j # i => /\ accessibleMounts'[j] = accessibleMounts[j]
                               /\ settled'[j] = settled[j]
                /\ allAccounts' = allAccounts]_vars
    /\ [](pc \in {"probing", "promptAccount"}
          => \A i \in 1..Len(allAccounts) :
                accessibleMounts[i] = (IF settled[i] = Pending THEN Pending
                                       ELSE ProbeYield(allAccounts[i], settled[i])))
    /\ [](pc = "promptAccount"
          => /\ Sorted(choices)
             /\ BagOfSeq(choices) = ListedNames(allAccounts, settled))

\* C18 happens: two mounts were probed, both probes succeeded, and the list
\* displayed is sorted although the mounts came in the other order.
C18_Witness ==
    /\ pc = "promptAccount"
    /\ allAccounts = <<MountB, MountA>>
    /\ \A i \in 1..2 : settled[i] # Rejected /\ settled[i].ok
    /\ choices = <<AccountA, AccountB>>

\* C19 as stated.  For every mount accepted by chooseAccount, the paths that
\* chooseRole and assumeRole build from the account name lie under the mount
\* that was probed: "aws/" + name + "/" is the mount key, and the roles
\* request of the account is the request of the probe.
C19_AccountDenotesProbedMount ==
    pc \in {"probing", "promptAccount"}
    => \A i \in 1..Len(allAccounts) :
          accessibleMounts[i].t = "string"
          => /\ AWS \o accessibleMounts[i].s \o <<"/">> = allAccounts[i]
             /\ rolesRequest(accessibleMounts[i]) = probeRequest(allAccounts[i])
             /\ \A rl \in {RoleRo, RoleAd} :
                   stsRequest(accessibleMounts[i], Str(rl)).path
                   = V1 \o allAccounts[i] \o <<"s", "t", "s", "/">> \o rl

\* The login fetched a token and wrote it to the token cache
TokenWritten ==
    /\ pc = "login"
    /\ In("token", vaultResult')
    /\ writes' # writes

\* The cache file holds a token whose expiration is at least five minutes
\* after now
StoredTokenFresh ==
    /\ cacheFile # NoFile
    /\ typeof(Get(cacheFile, "expiration")) = "number"
    /\ Get(cacheFile, "expiration").n >= now + FiveMinutes

\* C20 as stated.  Whatever the types of auth.lease_duration and
\* auth.policies in the accepted login body: the token a login returns is
\* written to the cache as it is when its expiration is not NaN, and the
\* login of a later run whose time is at least five minutes before the
\* expiration of the token in the cache returns that token from the cache,
\* unchanged, without a prompt or a request.
C20_RoundTrip ==
    /\ [][TokenWritten /\ Get(vaultToken', "expiration") # NaN
          => vaultToken' = vaultResult' /\ cacheFile' = vaultToken']_vars
    /\ [][pc = "login" /\ runs > 1 /\ StoredTokenFresh
          => /\ cachedToken' = cacheFile
             /\ vaultToken' = cacheFile
             /\ cacheFile' = cacheFile
             /\ requests' = requests /\ prompts' = prompts]_vars

\* The profiles that a credentials file holds, as parse reads them
Profiles(file) == IF file.exists THEN iniParse(file.sections) ELSE <<>>

\* The profiles of a file that are keyed by another name than name
OtherProfiles(file, name) ==
    {Profiles(file)[i] : i \in {j \in 1..Len(Profiles(file)) :
                                   Profiles(file)[j].name # name}}

\* The role assumption at pc = "assume" returned a credential
AssumptionSucceeded ==
    /\ pc = "assume"
    /\ ~Falsy(keys')

\* C21.  A successful role assumption for an account leaves every profile of
\* the credentials store that is keyed by another account in the store with
\* the contents it had, adds no profile under another name, and writes one
\* section for the account itself; once a role assumption has succeeded, the
\* store holds one section per name, however many assumptions follow.
C21_OtherProfilesKept ==
    /\ [][AssumptionSucceeded
          => /\ OtherProfiles(credentialsFile', account.s)
                = OtherProfiles(credentialsFile, account.s)
             /\ Cardinality({i \in 1..Len(credentialsFile'.sections) :
                                credentialsFile'.sections[i].name = account.s}) = 1
             /\ credentialsFile'.sections = Profiles(credentialsFile')]_vars
    /\ [](assumed # <<>>
          => \A i, j \in 1..Len(Sections) :
                Sections[i].name = Sections[j].name => i = j)

\* C21 happens: account b was assumed and then, in a later run, account a;
\* the store holds one section b, still with the credential of the first
\* assumption, and one section a with that of the second.
C21_Witness ==
    /\ pc = "exited"
    /\ exitCode = 0
    /\ Len(assumed) = 2
    /\ assumed[1].account = Str(AccountB)
    /\ assumed[2].account = Str(AccountA)
    /\ Len(Sections) = 2
    /\ \E i \in 1..2 :
          /\ Sections[i].name = AccountB
          /\ Sections[i].entry = EntryOf(assumed[1].keys, assumed[1].role, assumed[1].at)
    /\ \E i \in 1..2 :
          /\ Sections[i].name = AccountA
          /\ Sections[i].entry = EntryOf(assumed[2].keys, assumed[2].role, assumed[2].at)

\* The credentials store was written in this run
StoreWritten == \E w \in BagToSet(writes) : w.file = "credentials"

\* The store holds, under the chosen account, the credential this run assumed
StoreHoldsAssumed ==
    /\ ~Falsy(account) /\ ~Falsy(role) /\ ~Falsy(keys)
    /\ Cardinality(EntriesFor(account.s)) = 1
    /\ \A i \in EntriesFor(account.s) : Sections[i].entry = EntryOf(keys, role, now)

\* The federation sign-in request has been issued
SigninRequested == \E r \in BagToSet(requests) : "url" \in DOMAIN r

\* C22 as stated.  In the console command the sign-in request is issued only
\* after the credentials store was written with the assumed credential of
\* the chosen account; every run that ended with code 7 has the credential
\* in the store, and so has every console run that ended with code 0.
C22_PersistedBeforeSignin ==
    /\ pc = "signin" \/ SigninRequested => StoreWritten /\ StoreHoldsAssumed
    /\ Terminated /\ exitCode = 7 => StoreWritten /\ StoreHoldsAssumed
    /\ Terminated /\ exitCode = 0 /\ command = Str(CONSOLE)
       => StoreWritten /\ StoreHoldsAssumed

====
